---------------------------- MODULE Spec2Model ----------------------------
(***************************************************************************)
(* Mini-Circuits attenuators on the LAN: DeviceManager.discover_devices    *)
(* (UDP broadcast discovery and the parsing of the replies) and Attenuator *)
(* (the HTTP command client and its typed wrappers).                       *)
(*                                                                         *)
(* The socket, select, time and urllib libraries are collaborators of the  *)
(* program.  They are modelled by what the program can observe of them: a  *)
(* clock that advances between any two statements, a datagram queue per    *)
(* bound socket, a bind that is refused while the port is held, a request  *)
(* that fails or returns a body.  Payloads and bodies are text, the type   *)
(* the literals and patterns of the source are written against.            *)
(***************************************************************************)
EXTENDS Integers, Sequences, FiniteSets, TLC

\* Bounds of the model.
MaxTime == 3
MaxReplies == 2
MaxCalls == 2
MaxDiscoveryTime == 2
MaxBatch == 3

\* DeviceManager's class constants.
MINI_CIRCUITS_LISTENTING_PORT == 4950
MINI_CIRCUITS_ANSWERING_PORT == 4951

VARIABLES
    \* DeviceManager.discover_devices: position, locals, result
    pc, calls, discovery_time, timeout, select_timeout, broadcast_responses,
    discovered_devices, next_device, raised,
    \* the machine and the network around it
    now, sockets, receive_queue, datagrams_on_wire, replies_sent, replies_missed,
    \* one Attenuator and the wrapper call in progress on it
    attenuator, cmd_pc, wrapper, command, requests, urlopen_result, outcome

discovery_vars ==
    <<pc, calls, discovery_time, timeout, select_timeout, broadcast_responses,
      discovered_devices, next_device, raised,
      now, sockets, receive_queue, datagrams_on_wire, replies_sent, replies_missed>>

client_vars ==
    <<attenuator, cmd_pc, wrapper, command, requests, urlopen_result, outcome>>

vars == <<discovery_vars, client_vars>>

(***************************************************************************)
(* Text.  A Python string is a sequence of one-character strings, so that  *)
(* searching, matching, splitting, stripping and formatting are computed.  *)
(***************************************************************************)
\* 'Model Name'
Model_Name ==
    <<"M","o","d","e","l"," ","N","a","m","e">>
\* 'Serial Number'
Serial_Number ==
    <<"S","e","r","i","a","l"," ","N","u","m","b","e","r">>
\* 'IP Address'
IP_Address ==
    <<"I","P"," ","A","d","d","r","e","s","s">>
\* 'Port'
Port ==
    <<"P","o","r","t">>
\* 'Subnet Mask'
Subnet_Mask ==
    <<"S","u","b","n","e","t"," ","M","a","s","k">>
\* 'Network Gateway'
Network_Gateway ==
    <<"N","e","t","w","o","r","k"," ","G","a","t","e","w","a","y">>
\* 'Mac Address'
Mac_Address ==
    <<"M","a","c"," ","A","d","d","r","e","s","s">>
\* msg = 'MCLDAT?' + '\n'
msg ==
    <<"M","C","L","D","A","T","?","\n">>
\* ip_address_pattern, the literal before group 1
ip_address_prefix ==
    <<"I","P"," ","A","d","d","r","e","s","s","=">>
\* ip_address_pattern, the literal between group 1 and group 2
ip_address_middle ==
    <<" "," ","P","o","r","t",":"," ">>
\* "http://%s:%s/"
url_format ==
    <<"h","t","t","p",":","/","/","%","s",":","%","s","/">>

(***************************************************************************)
(* Discovery replies a device can send (payloads of datagrams to port 4951).*)
(***************************************************************************)
\* a well-formed reply: serial 11, 10.0.0.5 port 4951
Reply_A ==
    <<"M","o","d","e","l"," ","N","a","m","e",":"," ","R","C","\n","S","e","r","i","a","l"," ","N","u","m","b","e","r",":"," ","1","1","\n","I","P"," ","A","d","d","r","e","s","s","=","1","0",".","0",".","0",".","5"," "," ","P","o","r","t",":"," ","4","9","5","1","\n","S","u","b","n","e","t"," ","M","a","s","k","=","2","5","5",".","0",".","0",".","0","\n","N","e","t","w","o","r","k"," ","G","a","t","e","w","a","y","=","1","0",".","0",".","0",".","1","\n","M","a","c"," ","A","d","d","r","e","s","s","=","D","0","-","7","3">>
\* a well-formed reply with CR LF line ends: serial 12, 192.168.1.50 port 80
Reply_B ==
    <<"M","o","d","e","l"," ","N","a","m","e",":"," ","R","C","\r","\n","S","e","r","i","a","l"," ","N","u","m","b","e","r",":"," ","1","2","\r","\n","I","P"," ","A","d","d","r","e","s","s","=","1","9","2",".","1","6","8",".","1",".","5","0"," "," ","P","o","r","t",":"," ","8","0","\r","\n","S","u","b","n","e","t"," ","M","a","s","k","=","2","5","5",".","0",".","0",".","0","\r","\n","N","e","t","w","o","r","k"," ","G","a","t","e","w","a","y","=","1","0",".","0",".","0",".","1","\r","\n","M","a","c"," ","A","d","d","r","e","s","s","=","D","0","-","7","4","\r","\n">>
\* the Mac Address line splits into three tokens (odd token count)
Reply_OddTokens ==
    <<"M","o","d","e","l"," ","N","a","m","e",":"," ","R","C","\n","S","e","r","i","a","l"," ","N","u","m","b","e","r",":"," ","1","1","\n","I","P"," ","A","d","d","r","e","s","s","=","1","0",".","0",".","0",".","5"," "," ","P","o","r","t",":"," ","4","9","5","1","\n","S","u","b","n","e","t"," ","M","a","s","k","=","2","5","5",".","0",".","0",".","0","\n","N","e","t","w","o","r","k"," ","G","a","t","e","w","a","y","=","1","0",".","0",".","0",".","1","\n","M","a","c"," ","A","d","d","r","e","s","s","=","D","0",":","7","3">>
\* no Subnet Mask line (missing required field)
Reply_MissingField ==
    <<"M","o","d","e","l"," ","N","a","m","e",":"," ","R","C","\n","S","e","r","i","a","l"," ","N","u","m","b","e","r",":"," ","1","1","\n","I","P"," ","A","d","d","r","e","s","s","=","1","0",".","0",".","0",".","5"," "," ","P","o","r","t",":"," ","4","9","5","1","\n","N","e","t","w","o","r","k"," ","G","a","t","e","w","a","y","=","1","0",".","0",".","0",".","1","\n","M","a","c"," ","A","d","d","r","e","s","s","=","D","0","-","7","3">>
\* one space before Port: the IP/Port line does not match the pattern
Reply_BadIpLine ==
    <<"M","o","d","e","l"," ","N","a","m","e",":"," ","R","C","\n","S","e","r","i","a","l"," ","N","u","m","b","e","r",":"," ","1","1","\n","I","P"," ","A","d","d","r","e","s","s","=","1","0",".","0",".","0",".","5"," ","P","o","r","t",":"," ","4","9","5","1","\n","S","u","b","n","e","t"," ","M","a","s","k","=","2","5","5",".","0",".","0",".","0","\n","N","e","t","w","o","r","k"," ","G","a","t","e","w","a","y","=","1","0",".","0",".","0",".","1","\n","M","a","c"," ","A","d","d","r","e","s","s","=","D","0","-","7","3">>
\* the IP/Port line carries no address at all
Reply_EmptyIp ==
    <<"M","o","d","e","l"," ","N","a","m","e",":"," ","R","C","\n","S","e","r","i","a","l"," ","N","u","m","b","e","r",":"," ","1","1","\n","I","P"," ","A","d","d","r","e","s","s","="," "," ","P","o","r","t",":"," ","4","9","5","1","\n","S","u","b","n","e","t"," ","M","a","s","k","=","2","5","5",".","0",".","0",".","0","\n","N","e","t","w","o","r","k"," ","G","a","t","e","w","a","y","=","1","0",".","0",".","0",".","1","\n","M","a","c"," ","A","d","d","r","e","s","s","=","D","0","-","7","3">>
(***************************************************************************)
(* The typed wrappers of Attenuator: the command text each formats, how it  *)
(* reads the return code, the message it raises with, its parameter's type. *)
(***************************************************************************)
set_attenuation ==
    [name |-> "set_attenuation", check |-> "attenuation", arg |-> "float",
     failed |-> "Command to set Attenuation Failed",
     clamped |-> "Requested attenuation was higher than the allowed range, the attenuation was set to the device's maximum",
     fmt |-> <<":","S","E","T","A","T","T","=","%","s">>]
get_attenuation ==
    [name |-> "get_attenuation", check |-> "query", arg |-> "",
     failed |-> "",
     clamped |-> "",
     fmt |-> <<":","A","T","T","?">>]
set_startup_attenuation_mode ==
    [name |-> "set_startup_attenuation_mode", check |-> "discrete", arg |-> "start_mode",
     failed |-> "Command to change attenuator startup mode failed",
     clamped |-> "",
     fmt |-> <<"S","T","A","R","T","U","P","A","T","T",":","I","N","D","I","C","A","T","O","R",":","%","s">>]
get_startup_attenuation_mode ==
    [name |-> "get_startup_attenuation_mode", check |-> "query", arg |-> "",
     failed |-> "",
     clamped |-> "",
     fmt |-> <<":","S","T","A","R","T","U","P","A","T","T",":","I","N","D","I","C","A","T","O","R","?">>]
set_startup_attenuation_value ==
    [name |-> "set_startup_attenuation_value", check |-> "attenuation", arg |-> "float",
     failed |-> "Command to set Attenuation Failed",
     clamped |-> "Requested attenuation was higher than the allowed range,the attenuation was set to the device's maximum",
     fmt |-> <<":","S","T","A","R","T","U","P","A","T","T",":","V","A","L","U","E",":","%","s">>]
get_startup_attenuation_value ==
    [name |-> "get_startup_attenuation_value", check |-> "query", arg |-> "",
     failed |-> "",
     clamped |-> "",
     fmt |-> <<":","S","T","A","R","T","U","P","A","T","T",":","V","A","L","U","E","?">>]
get_firmware_version ==
    [name |-> "get_firmware_version", check |-> "query", arg |-> "",
     failed |-> "",
     clamped |-> "",
     fmt |-> <<":","F","I","R","M","W","A","R","E","?">>]
hop_mode_set_points ==
    [name |-> "hop_mode_set_points", check |-> "discrete", arg |-> "int",
     failed |-> "Command to set number of hop points failed",
     clamped |-> "",
     fmt |-> <<":","H","O","P",":","P","O","I","N","T","S",":","%","s">>]
hop_mode_get_points ==
    [name |-> "hop_mode_get_points", check |-> "query", arg |-> "",
     failed |-> "",
     clamped |-> "",
     fmt |-> <<":","H","O","P",":","P","O","I","N","T","S","?">>]
hop_mode_set_direction ==
    [name |-> "hop_mode_set_direction", check |-> "discrete", arg |-> "direction",
     failed |-> "Command to set hop direction failed",
     clamped |-> "",
     fmt |-> <<":","H","O","P",":","D","I","R","E","C","T","I","O","N",":","%","s">>]
hop_mode_get_direction ==
    [name |-> "hop_mode_get_direction", check |-> "query", arg |-> "",
     failed |-> "",
     clamped |-> "",
     fmt |-> <<":","H","O","P",":","D","I","R","E","C","T","I","O","N","?">>]
hop_mode_set_indexed_point ==
    [name |-> "hop_mode_set_indexed_point", check |-> "discrete", arg |-> "int",
     failed |-> "Command to set indexed point failed",
     clamped |-> "",
     fmt |-> <<":","H","O","P",":","P","O","I","N","T",":","%","s">>]
hop_mode_get_indexed_point ==
    [name |-> "hop_mode_get_indexed_point", check |-> "query", arg |-> "",
     failed |-> "",
     clamped |-> "",
     fmt |-> <<":","H","O","P",":","P","O","I","N","T","?">>]
hop_mode_set_point_dwell_time_units ==
    [name |-> "hop_mode_set_point_dwell_time_units", check |-> "discrete", arg |-> "units",
     failed |-> "Command to set dwell time units failed",
     clamped |-> "",
     fmt |-> <<":","H","O","P",":","D","W","E","L","L","_","U","N","I","T",":","%","s">>]
hop_mode_set_point_dwell_time ==
    [name |-> "hop_mode_set_point_dwell_time", check |-> "discrete", arg |-> "int",
     failed |-> "Command to set dwell time failed",
     clamped |-> "",
     fmt |-> <<":","H","O","P",":","D","W","E","L","L",":","%","s">>]
hop_mode_get_point_dwell_time ==
    [name |-> "hop_mode_get_point_dwell_time", check |-> "query", arg |-> "",
     failed |-> "",
     clamped |-> "",
     fmt |-> <<":","H","O","P",":","D","W","E","L","L","?">>]
hop_mode_set_point_attenuation ==
    [name |-> "hop_mode_set_point_attenuation", check |-> "discrete", arg |-> "float",
     failed |-> "Command to set point attenuation failed",
     clamped |-> "",
     fmt |-> <<":","H","O","P",":","A","T","T",":","%","s">>]
hop_mode_get_point_attenuation ==
    [name |-> "hop_mode_get_point_attenuation", check |-> "query", arg |-> "",
     failed |-> "",
     clamped |-> "",
     fmt |-> <<":","H","O","P",":","A","T","T","?">>]
set_hop_mode ==
    [name |-> "set_hop_mode", check |-> "discrete", arg |-> "mode",
     failed |-> "Command to set hop mode failed",
     clamped |-> "",
     fmt |-> <<":","H","O","P",":","M","O","D","E",":","%","s">>]
sweep_mode_set_sweep_direction ==
    [name |-> "sweep_mode_set_sweep_direction", check |-> "discrete", arg |-> "direction",
     failed |-> "Command to set sweep direction failed",
     clamped |-> "",
     fmt |-> <<":","S","W","E","E","P",":","D","I","R","E","C","T","I","O","N",":","%","s">>]
sweep_mode_get_sweep_direction ==
    [name |-> "sweep_mode_get_sweep_direction", check |-> "query", arg |-> "",
     failed |-> "",
     clamped |-> "",
     fmt |-> <<":","S","W","E","E","P",":","D","I","R","E","C","T","I","O","N","?">>]
sweep_mode_set_dwell_time_units ==
    [name |-> "sweep_mode_set_dwell_time_units", check |-> "discrete", arg |-> "units",
     failed |-> "Command to set sweep dwell time units failed",
     clamped |-> "",
     fmt |-> <<":","S","W","E","E","P",":","D","W","E","L","L","_","U","N","I","T",":","%","s">>]
sweep_mode_set_dwell_time ==
    [name |-> "sweep_mode_set_dwell_time", check |-> "discrete", arg |-> "int",
     failed |-> "Command to set sweep dwell time failed",
     clamped |-> "",
     fmt |-> <<":","S","W","E","E","P",":","D","W","E","L","L",":","%","s">>]
sweep_mode_get_dwell_time ==
    [name |-> "sweep_mode_get_dwell_time", check |-> "query", arg |-> "",
     failed |-> "",
     clamped |-> "",
     fmt |-> <<":","S","W","E","E","P",":","D","W","E","L","L","?">>]
sweep_mode_set_start_attenuation ==
    [name |-> "sweep_mode_set_start_attenuation", check |-> "discrete", arg |-> "float",
     failed |-> "Command to set sweep start attenuation failed",
     clamped |-> "",
     fmt |-> <<":","S","W","E","E","P",":","S","T","A","R","T",":","%","s">>]
sweep_mode_get_start_attenuation ==
    [name |-> "sweep_mode_get_start_attenuation", check |-> "query", arg |-> "",
     failed |-> "",
     clamped |-> "",
     fmt |-> <<":","S","W","E","E","P",":","S","T","A","R","T","?">>]
sweep_mode_set_stop_attenuation ==
    [name |-> "sweep_mode_set_stop_attenuation", check |-> "discrete", arg |-> "float",
     failed |-> "Command to set sweep stop attenuation failed",
     clamped |-> "",
     fmt |-> <<":","S","W","E","E","P",":","S","T","O","P",":","%","s">>]
sweep_mode_get_stop_attenuation ==
    [name |-> "sweep_mode_get_stop_attenuation", check |-> "query", arg |-> "",
     failed |-> "",
     clamped |-> "",
     fmt |-> <<":","S","W","E","E","P",":","S","T","O","P","?">>]
sweep_mode_set_step_size ==
    [name |-> "sweep_mode_set_step_size", check |-> "discrete", arg |-> "float",
     failed |-> "Command to set sweep step size failed",
     clamped |-> "",
     fmt |-> <<":","S","W","E","E","P",":","S","T","E","P","S","I","Z","E",":","%","s">>]
sweep_mode_get_step_size ==
    [name |-> "sweep_mode_get_step_size", check |-> "query", arg |-> "",
     failed |-> "",
     clamped |-> "",
     fmt |-> <<":","S","W","E","E","P",":","S","T","E","P","S","I","Z","E","?">>]
set_sweep_mode ==
    [name |-> "set_sweep_mode", check |-> "discrete", arg |-> "mode",
     failed |-> "Command to set sweep mode failed",
     clamped |-> "",
     fmt |-> <<":","S","W","E","E","P",":","M","O","D","E",":","%","s">>]

Wrappers ==
    {set_attenuation, get_attenuation, set_startup_attenuation_mode,
     get_startup_attenuation_mode, set_startup_attenuation_value, get_startup_attenuation_value,
     get_firmware_version, hop_mode_set_points, hop_mode_get_points,
     hop_mode_set_direction, hop_mode_get_direction, hop_mode_set_indexed_point,
     hop_mode_get_indexed_point, hop_mode_set_point_dwell_time_units, hop_mode_set_point_dwell_time,
     hop_mode_get_point_dwell_time, hop_mode_set_point_attenuation, hop_mode_get_point_attenuation,
     set_hop_mode, sweep_mode_set_sweep_direction, sweep_mode_get_sweep_direction,
     sweep_mode_set_dwell_time_units, sweep_mode_set_dwell_time, sweep_mode_get_dwell_time,
     sweep_mode_set_start_attenuation, sweep_mode_get_start_attenuation, sweep_mode_set_stop_attenuation,
     sweep_mode_get_stop_attenuation, sweep_mode_set_step_size, sweep_mode_get_step_size,
     set_sweep_mode}

(***************************************************************************)
(* Python values and string methods.                                       *)
(***************************************************************************)
\* None: a value that is no text.
None == <<"<None>">>

\* bool(x) of a string or None, as `if self.password:` takes it.
Truthy(x) ==
    x # None /\ x # <<>>

Digits ==
    {"0", "1", "2", "3", "4", "5", "6", "7", "8", "9"}

\* what \s matches and what str.strip() removes
Whitespace ==
    {" ", "\t", "\n", "\r"}

\* where str.splitlines() breaks a line
LineEnds ==
    {"\n", "\r"}

\* s[i-1:j-1] in Python's terms: the characters at positions i..j-1 (from 1).
Slice(s, i, j) ==
    [k \in 1..(j - i) |-> s[i + k - 1]]

\* whether lit occurs in s at position i
OccursAt(s, i, lit) ==
    /\ i + Len(lit) - 1 <= Len(s)
    /\ \A k \in 1..Len(lit) : s[i + k - 1] = lit[k]

\* lit in s
Contains(s, lit) ==
    \E i \in 1..(Len(s) + 1) : OccursAt(s, i, lit)

\* the end (exclusive) of the longest run of characters of `set` that starts at i
RunEnd(s, i, set) ==
    CHOOSE j \in i..(Len(s) + 1) :
        /\ \A k \in i..(j - 1) : s[k] \in set
        /\ j = Len(s) + 1 \/ s[j] \notin set

\* str.strip()
Strip(s) ==
    LET kept == {i \in 1..Len(s) : s[i] \notin Whitespace}
    IN  IF kept = {} THEN <<>>
        ELSE LET first == CHOOSE i \in kept : \A j \in kept : i <= j
                 last  == CHOOSE i \in kept : \A j \in kept : j <= i
             IN  Slice(s, first, last + 1)

\* str.splitlines(): break at \n, \r and \r\n; no empty last line
RECURSIVE SplitLinesFrom(_, _)
SplitLinesFrom(s, start) ==
    IF start > Len(s) THEN <<>>
    ELSE LET i == RunEnd(s, start, {s[k] : k \in 1..Len(s)} \ LineEnds)
             after == IF i < Len(s) /\ s[i] = "\r" /\ s[i + 1] = "\n"
                      THEN i + 2 ELSE i + 1
         IN  <<Slice(s, start, i)>> \o SplitLinesFrom(s, after)

splitlines(s) ==
    SplitLinesFrom(s, 1)

\* str(n) of a non-negative int
RECURSIVE IntToStr(_)
IntToStr(n) ==
    LET digit == CHOOSE d \in Digits :
                   d = <<"0","1","2","3","4","5","6","7","8","9">>[(n % 10) + 1]
    IN  IF n < 10 THEN <<digit>> ELSE IntToStr(n \div 10) \o <<digit>>

\* str(x): text as it is, an int in decimal, a float (held in tenths) with one
\* digit after the point, as Python prints 12.5 and 100.0
PyStr(x) ==
    CASE x.type = "str"   -> x.value
      [] x.type = "int"   -> IntToStr(x.value)
      [] x.type = "float" -> IntToStr(x.value \div 10) \o <<".">> \o IntToStr(x.value % 10)

\* fmt % args: each %s of fmt replaced by the next of args
RECURSIVE PyFormat(_, _)
PyFormat(fmt, args) ==
    IF fmt = <<>> THEN <<>>
    ELSE IF OccursAt(fmt, 1, <<"%", "s">>)
         THEN Head(args) \o PyFormat(Tail(Tail(fmt)), Tail(args))
         ELSE <<Head(fmt)>> \o PyFormat(Tail(fmt), args)

(***************************************************************************)
(* The regular expressions of discover_devices.                            *)
(***************************************************************************)
\* re.match("IP Address=([\d\.]*)  Port: (\d+)", field): anchored at the start of
\* the field, not at its end; both groups greedy.  No shorter group 1 can match:
\* the character after a shortened run is a digit or a dot, never the space
\* the pattern wants next.
match_ip_address(field) ==
    LET g1  == Len(ip_address_prefix) + 1
        e1  == RunEnd(field, g1, Digits \cup {"."})
        g2  == e1 + Len(ip_address_middle)
        e2  == RunEnd(field, g2, Digits)
        hit == /\ OccursAt(field, 1, ip_address_prefix)
               /\ OccursAt(field, e1, ip_address_middle)
               /\ e2 > g2
    IN  IF hit
        THEN [matched |-> TRUE, group1 |-> Slice(field, g1, e1), group2 |-> Slice(field, g2, e2)]
        ELSE [matched |-> FALSE, group1 |-> <<>>, group2 |-> <<>>]

\* re.split('[:=]|\s\s+', field): a ':' or '=' is a separator, and so is a run of
\* two or more whitespace characters; a single space is part of the token.
SeparatorAt(s, i) ==
    \/ s[i] \in {":", "="}
    \/ s[i] \in Whitespace /\ RunEnd(s, i, Whitespace) >= i + 2

RECURSIVE SplitFrom(_, _)
SplitFrom(s, start) ==
    LET found == {i \in start..Len(s) : SeparatorAt(s, i)}
    IN  IF found = {} THEN <<Slice(s, start, Len(s) + 1)>>
        ELSE LET i == CHOOSE x \in found : \A y \in found : x <= y
                 after == IF s[i] \in {":", "="} THEN i + 1
                          ELSE RunEnd(s, i, Whitespace)
             IN  <<Slice(s, start, i)>> \o SplitFrom(s, after)

re_split(field) ==
    SplitFrom(field, 1)

(***************************************************************************)
(* Attenuator: construction, the HTTP command, the wrappers' checks.       *)
(***************************************************************************)
\* dict[key] = value
DictSet(dict, key, value) ==
    [k \in DOMAIN dict \cup {key} |-> IF k = key THEN value ELSE dict[k]]

EmptyDict ==
    [k \in {} |-> <<>>]

\* the keys Attenuator.__init__ reads
RequiredFields ==
    {Model_Name, Serial_Number, IP_Address, Port, Subnet_Mask, Network_Gateway,
     Mac_Address}

\* Attenuator(device_details), when every key it reads is there
Attenuator(device_details) ==
    [model_name      |-> device_details[Model_Name],
     serial_number   |-> device_details[Serial_Number],
     ip_address      |-> device_details[IP_Address],
     port            |-> device_details[Port],
     subnet_mask     |-> device_details[Subnet_Mask],
     network_gateway |-> device_details[Network_Gateway],
     mac_address     |-> device_details[Mac_Address],
     url             |-> PyFormat(url_format,
                                  <<device_details[IP_Address], device_details[Port]>>),
     password        |-> None]

\* device_details[...] of a missing key raises KeyError
AttenuatorRaises(device_details) ==
    ~(RequiredFields \subseteq DOMAIN device_details)

(***************************************************************************)
(* discover_devices, lines 36-52: the parsing of one reply.                *)
(***************************************************************************)
\* for i in range(0, len(split_fields), 2):
\*     device_details[split_fields[i].strip()] = split_fields[i+1].strip()
\* (i counts from 1 here); split_fields[i+1] past the end raises IndexError
RECURSIVE StorePairs(_, _, _)
StorePairs(device_details, split_fields, i) ==
    IF i > Len(split_fields) THEN [raises |-> "", device_details |-> device_details]
    ELSE IF i + 1 > Len(split_fields)
         THEN [raises |-> "IndexError", device_details |-> device_details]
         ELSE StorePairs(DictSet(device_details, Strip(split_fields[i]),
                                 Strip(split_fields[i + 1])),
                         split_fields, i + 2)

\* the body of `for field in device.splitlines()`
ParseField(device_details, field) ==
    IF Contains(field, IP_Address)
    THEN LET m == match_ip_address(field)
         IN  [raises |-> "",
              device_details |->
                  IF m.matched
                  THEN DictSet(DictSet(device_details, IP_Address, m.group1),
                               Port, m.group2)
                  ELSE device_details]
    ELSE StorePairs(device_details, re_split(field), 1)

RECURSIVE ParseFields(_, _, _)
ParseFields(device_details, fields, k) ==
    IF k > Len(fields) THEN [raises |-> "", device_details |-> device_details]
    ELSE LET r == ParseField(device_details, fields[k])
         IN  IF r.raises # "" THEN r
             ELSE ParseFields(r.device_details, fields, k + 1)

\* the try block of one reply: what it raises ("" when nothing), and the
\* Attenuator it appends when nothing is raised
ParseDevice(device) ==
    LET r == ParseFields(EmptyDict, splitlines(device), 1)
    IN  IF r.raises # "" THEN [raises |-> r.raises, attenuator |-> None]
        ELSE IF AttenuatorRaises(r.device_details)
             THEN [raises |-> "KeyError", attenuator |-> None]
             ELSE [raises |-> "", attenuator |-> Attenuator(r.device_details)]

\* as AfterDevice, with the error of one reply ending the discovery of the others
AfterDevice_AbortsOnError(devices, device) ==
    LET r == ParseDevice(device)
    IN  IF r.raises = "" THEN Append(devices, r.attenuator) ELSE <<>>

\* discovered_devices after the try/except of one reply: the bare except
\* swallows whatever the try block raised
AfterDevice(devices, device) ==
    LET r == ParseDevice(device)
    IN  IF r.raises = "" THEN Append(devices, r.attenuator) ELSE devices

(***************************************************************************)
(* Attenuator: the command sent, the reading of the return code.           *)
(***************************************************************************)
START_MODES ==
    {<<"L">>, <<"F">>, <<"N">>}

DIRECTIONS ==
    {<<"0">>, <<"1">>, <<"2">>}

DWELL_TIME_UNITS ==
    {<<"U">>, <<"M">>, <<"S">>}

MODES ==
    {<<"O","N">>, <<"O","F","F">>}

\* the values a caller passes for a parameter of each type
Arguments(type) ==
    CASE type = "float"      -> {[type |-> "float", value |-> 125],
                                 [type |-> "float", value |-> 1000]}
      [] type = "int"        -> {[type |-> "int", value |-> 4]}
      [] type = "start_mode" -> {[type |-> "str", value |-> s] : s \in START_MODES}
      [] type = "direction"  -> {[type |-> "str", value |-> s] : s \in DIRECTIONS}
      [] type = "units"      -> {[type |-> "str", value |-> s] : s \in DWELL_TIME_UNITS}
      [] type = "mode"       -> {[type |-> "str", value |-> s] : s \in MODES}
      [] type = ""           -> {[type |-> "str", value |-> <<>>]}

\* the bodies a device answers with
Responses ==
    {<<"0">>, <<"1">>, <<"2">>, <<>>, <<"1","2",".","5">>, <<"1","0">>}

\* the passwords a caller assigns to attenuator.password
Passwords ==
    {None, <<>>, <<"A","B","C">>}

\* the ways urllib.request.urlopen fails
TransportErrors ==
    {"URLError", "timeout"}

\* the command text a wrapper hands to _send_http_cmd
CommandText(w, arg) ==
    IF w.arg = "" THEN w.fmt ELSE PyFormat(w.fmt, <<PyStr(arg)>>)

\* as http_cmd, with the password put before the command without the ';'
http_cmd_NoSeparator(self, cmd) ==
    IF Truthy(self.password)
    THEN self.url \o self.password \o cmd
    ELSE self.url \o cmd

\* _send_http_cmd, lines 58-61
http_cmd(self, cmd) ==
    IF Truthy(self.password)
    THEN self.url \o self.password \o <<";">> \o cmd
    ELSE self.url \o cmd

Returns(value) ==
    [kind |-> "return", exception |-> "", message |-> "", value |-> value]

Raises(exception, message) ==
    [kind |-> "raise", exception |-> exception, message |-> message, value |-> None]

Pending ==
    [kind |-> "pending", exception |-> "", message |-> "", value |-> None]

\* as AttenuationCheck, with the test for '2' left out
AttenuationCheck_ClampIgnored(w, return_code) ==
    IF return_code = <<"0">> THEN Raises("AttenuatorException", w.failed)
    ELSE Returns(None)

\* set_attenuation, set_startup_attenuation_value: '0' and '2' raise
AttenuationCheck(w, return_code) ==
    IF return_code = <<"0">> THEN Raises("AttenuatorException", w.failed)
    ELSE IF return_code = <<"2">> THEN Raises("AttenuatorException", w.clamped)
    ELSE Returns(None)

\* as DiscreteCheck, with the test of the attenuation setters: only '0' raises
DiscreteCheck_ZeroOnly(w, return_code) ==
    IF return_code = <<"0">> THEN Raises("AttenuatorException", w.failed)
    ELSE Returns(None)

\* every other setter: anything but '1' raises
DiscreteCheck(w, return_code) ==
    IF return_code # <<"1">> THEN Raises("AttenuatorException", w.failed)
    ELSE Returns(None)

\* the getters return the body as it was read
QueryResult(w, return_code) ==
    Returns(return_code)

\* what the wrapper does with the body _send_http_cmd returned
WrapperResult(w, return_code) ==
    CASE w.check = "attenuation" -> AttenuationCheck(w, return_code)
      [] w.check = "discrete"    -> DiscreteCheck(w, return_code)
      [] w.check = "query"       -> QueryResult(w, return_code)

\* as WrapperOnTransportError, with a handler that reports the wrapper's own failure
WrapperOnTransportError_Converted(w, error) ==
    Raises("AttenuatorException", w.failed)

\* urlopen raised: neither _send_http_cmd nor any wrapper has a handler, the
\* exception leaves the wrapper as it is
WrapperOnTransportError(w, error) ==
    Raises(error, "")

\* the requests of one _send_http_cmd: one urlopen
RequestsOf(url) ==
    <<url>>

(***************************************************************************)
(* State after construction.                                               *)
(***************************************************************************)
Replies ==
    {Reply_A, Reply_B, Reply_OddTokens, Reply_MissingField, Reply_BadIpLine,
     Reply_EmptyIp}

InitDiscovery ==
    /\ pc = "idle"
    /\ calls = 0
    /\ discovery_time = 0
    /\ timeout = 0
    /\ select_timeout = 0
    /\ broadcast_responses = <<>>
    /\ discovered_devices = <<>>
    /\ next_device = 1
    /\ raised = ""
    /\ now = 0
    /\ sockets = {}
    /\ receive_queue = <<>>
    /\ datagrams_on_wire = <<>>
    /\ replies_sent = 0
    /\ replies_missed = 0

\* an Attenuator as discover_devices builds it from a reply
InitClient(device) ==
    /\ attenuator = ParseDevice(device).attenuator
    /\ cmd_pc = "idle"
    /\ wrapper = get_attenuation
    /\ command = <<>>
    /\ requests = <<>>
    /\ urlopen_result = [raised |-> "", body |-> <<>>]
    /\ outcome = Pending

Init ==
    /\ InitDiscovery
    /\ InitClient(Reply_A)

InitCommands ==
    /\ InitDiscovery
    /\ \E device \in {Reply_A, Reply_B} : InitClient(device)

(***************************************************************************)
(* DeviceManager.discover_devices, statement by statement.                 *)
(***************************************************************************)
Running ==
    pc \in {"sendto", "bind", "deadline", "while", "select", "waiting", "parse"}

Socket(name, port) ==
    [call |-> calls, name |-> name, port |-> port]

\* the receive socket of the running call, once bound
ReceiverBound ==
    Running /\ Socket("receiver_socket", MINI_CIRCUITS_ANSWERING_PORT) \in sockets

\* lines 21-23: the broadcast socket, bound to an ephemeral port (0 here)
DiscoverDevices(time) ==
    /\ pc \in {"idle", "returned", "raised"}
    /\ calls < MaxCalls
    /\ now + time <= MaxTime
    /\ calls' = calls + 1
    /\ sockets' = sockets \cup {[call |-> calls + 1, name |-> "broadcast_socket", port |-> 0]}
    /\ discovery_time' = time
    /\ timeout' = 0
    /\ select_timeout' = 0
    /\ broadcast_responses' = <<>>
    /\ discovered_devices' = <<>>
    /\ next_device' = 1
    /\ raised' = ""
    /\ receive_queue' = <<>>
    /\ datagrams_on_wire' = <<>>
    /\ replies_sent' = 0
    /\ replies_missed' = 0
    /\ pc' = "sendto"
    /\ UNCHANGED <<now, client_vars>>

\* lines 24-25: the query is broadcast
Sendto ==
    /\ pc = "sendto"
    /\ datagrams_on_wire' = Append(datagrams_on_wire,
                                   [data |-> msg, port |-> MINI_CIRCUITS_LISTENTING_PORT])
    /\ pc' = "bind"
    /\ UNCHANGED <<calls, discovery_time, timeout, select_timeout, broadcast_responses,
                   discovered_devices, next_device, raised, now, sockets,
                   receive_queue, replies_sent, replies_missed, client_vars>>

\* lines 26-27: the receive socket; bind is refused (OSError, address in use)
\* while another process or a socket left open by an earlier call holds the port
Bind(held_by_other_process) ==
    /\ pc = "bind"
    /\ LET in_use == \/ held_by_other_process
                     \/ \E s \in sockets : s.port = MINI_CIRCUITS_ANSWERING_PORT
       IN  IF in_use
           THEN /\ sockets' = sockets \cup {Socket("receiver_socket", -1)}
                /\ raised' = "OSError"
                /\ pc' = "raised"
           ELSE /\ sockets' = sockets \cup
                        {Socket("receiver_socket", MINI_CIRCUITS_ANSWERING_PORT)}
                /\ raised' = ""
                /\ pc' = "deadline"
    /\ UNCHANGED <<calls, discovery_time, timeout, select_timeout, broadcast_responses,
                   discovered_devices, next_device, now, receive_queue,
                   datagrams_on_wire, replies_sent, replies_missed, client_vars>>

\* lines 28-29: timeout = time.time() + discovery_time
SetTimeout ==
    /\ pc = "deadline"
    /\ broadcast_responses' = <<>>
    /\ timeout' = now + discovery_time
    /\ pc' = "while"
    /\ UNCHANGED <<calls, discovery_time, select_timeout, discovered_devices, next_device, raised,
                   now, sockets, receive_queue, datagrams_on_wire, replies_sent,
                   replies_missed, client_vars>>

\* line 30: while time.time() < timeout; line 35 when it is not
WhileTest ==
    /\ pc = "while"
    /\ IF now < timeout
       THEN pc' = "select" /\ UNCHANGED discovered_devices
       ELSE pc' = "parse" /\ discovered_devices' = <<>>
    /\ next_device' = 1
    /\ UNCHANGED <<calls, discovery_time, timeout, select_timeout, broadcast_responses, raised,
                   now, sockets, receive_queue, datagrams_on_wire, replies_sent,
                   replies_missed, client_vars>>

\* line 31: select.select(..., timeout-time.time()); the clock is read again, and
\* select raises ValueError for a negative timeout
Select ==
    /\ pc = "select"
    /\ select_timeout' = timeout - now
    /\ IF timeout - now < 0
       THEN raised' = "ValueError" /\ pc' = "raised"
       ELSE raised' = "" /\ pc' = "waiting"
    /\ UNCHANGED <<calls, discovery_time, timeout, broadcast_responses, discovered_devices,
                   next_device, now, sockets, receive_queue, datagrams_on_wire,
                   replies_sent, replies_missed, client_vars>>

\* lines 31-34: select returns when a datagram is queued, or when its timeout
\* has run out (ready is then empty); a ready socket is read and the payload kept
SelectReturns ==
    /\ pc = "waiting"
    /\ \/ /\ receive_queue # <<>>
          /\ broadcast_responses' = Append(broadcast_responses, Head(receive_queue))
          /\ receive_queue' = Tail(receive_queue)
       \/ /\ receive_queue = <<>>
          /\ now >= timeout
          /\ UNCHANGED <<broadcast_responses, receive_queue>>
    /\ pc' = "while"
    /\ UNCHANGED <<calls, discovery_time, timeout, select_timeout, discovered_devices, next_device,
                   raised, now, sockets, datagrams_on_wire, replies_sent,
                   replies_missed, client_vars>>

\* lines 36-52: one turn of `for device in broadcast_responses`
ParseNext ==
    /\ pc = "parse"
    /\ next_device <= Len(broadcast_responses)
    /\ discovered_devices' = AfterDevice(discovered_devices,
                                         broadcast_responses[next_device])
    /\ next_device' = next_device + 1
    /\ UNCHANGED <<pc, calls, discovery_time, timeout, select_timeout, broadcast_responses, raised,
                   now, sockets, receive_queue, datagrams_on_wire, replies_sent,
                   replies_missed, client_vars>>

\* line 53: return discovered_devices
Return ==
    /\ pc = "parse"
    /\ next_device > Len(broadcast_responses)
    /\ pc' = "returned"
    /\ UNCHANGED <<calls, discovery_time, timeout, select_timeout, broadcast_responses,
                   discovered_devices, next_device, raised, now, sockets,
                   receive_queue, datagrams_on_wire, replies_sent, replies_missed,
                   client_vars>>

(***************************************************************************)
(* The machine and the network.                                            *)
(***************************************************************************)
\* the clock moves on between any two statements; the call reads it at lines
\* 29, 30 and 31, so only what passes from line 29 on is told apart
Tick ==
    /\ pc \in {"while", "select", "waiting"}
    /\ now < MaxTime
    /\ now' = now + 1
    /\ UNCHANGED <<pc, calls, discovery_time, timeout, select_timeout, broadcast_responses,
                   discovered_devices, next_device, raised, sockets, receive_queue,
                   datagrams_on_wire, replies_sent, replies_missed, client_vars>>

\* a device that heard the query answers to port 4951: the datagram is queued
\* on the socket bound there, and is lost when the call has bound none yet
DeviceReply(data) ==
    /\ pc \in {"bind", "deadline", "while", "select", "waiting"}
    /\ datagrams_on_wire # <<>>
    /\ replies_sent < MaxReplies
    /\ replies_sent' = replies_sent + 1
    /\ IF ReceiverBound
       THEN receive_queue' = Append(receive_queue, data) /\ UNCHANGED replies_missed
       ELSE replies_missed' = replies_missed + 1 /\ UNCHANGED receive_queue
    /\ UNCHANGED <<pc, calls, discovery_time, timeout, select_timeout, broadcast_responses,
                   discovered_devices, next_device, raised, now, sockets,
                   datagrams_on_wire, client_vars>>

\* discover_devices closes no socket: one is closed when the interpreter
\* collects it, some time after the call that opened it has ended
Collect(call) ==
    /\ \E s \in sockets : s.call = call
    /\ ~(Running /\ call = calls)
    /\ sockets' = {s \in sockets : s.call # call}
    /\ UNCHANGED <<pc, calls, discovery_time, timeout, select_timeout, broadcast_responses,
                   discovered_devices, next_device, raised, now, receive_queue,
                   datagrams_on_wire, replies_sent, replies_missed, client_vars>>

(***************************************************************************)
(* One wrapper call on the Attenuator.                                     *)
(***************************************************************************)
\* the caller assigns attenuator.password
SetPassword(password) ==
    /\ cmd_pc \in {"idle", "done"}
    /\ attenuator' = [attenuator EXCEPT !.password = password]
    /\ UNCHANGED <<cmd_pc, wrapper, command, requests, urlopen_result, outcome,
                   discovery_vars>>

\* the wrapper formats its command; _send_http_cmd builds the URL and opens it
Call(w, arg) ==
    /\ cmd_pc \in {"idle", "done"}
    /\ wrapper' = w
    /\ command' = CommandText(w, arg)
    /\ requests' = RequestsOf(http_cmd(attenuator, CommandText(w, arg)))
    /\ urlopen_result' = [raised |-> "", body |-> <<>>]
    /\ outcome' = Pending
    /\ cmd_pc' = "urlopen"
    /\ UNCHANGED <<attenuator, discovery_vars>>

\* urlopen fails
UrlopenRaises(error) ==
    /\ cmd_pc = "urlopen"
    /\ urlopen_result' = [raised |-> error, body |-> <<>>]
    /\ outcome' = WrapperOnTransportError(wrapper, error)
    /\ cmd_pc' = "done"
    /\ UNCHANGED <<attenuator, wrapper, command, requests, discovery_vars>>

\* request_response.read() gives the body, the wrapper reads the return code
UrlopenReturns(body) ==
    /\ cmd_pc = "urlopen"
    /\ urlopen_result' = [raised |-> "", body |-> body]
    /\ outcome' = WrapperResult(wrapper, body)
    /\ cmd_pc' = "done"
    /\ UNCHANGED <<attenuator, wrapper, command, requests, discovery_vars>>

(***************************************************************************)
(* Specifications.                                                         *)
(***************************************************************************)
Next ==
    \/ \E time \in 0..MaxDiscoveryTime : DiscoverDevices(time)
    \/ Sendto
    \/ \E held_by_other_process \in BOOLEAN : Bind(held_by_other_process)
    \/ SetTimeout
    \/ WhileTest
    \/ Select
    \/ SelectReturns
    \/ ParseNext
    \/ Return
    \/ Tick
    \/ \E data \in Replies : DeviceReply(data)
    \/ \E call \in 1..MaxCalls : Collect(call)

Spec ==
    Init /\ [][Next]_vars

NextCommands ==
    \/ \E password \in Passwords : SetPassword(password)
    \/ \E w \in Wrappers : \E arg \in Arguments(w.arg) : Call(w, arg)
    \/ \E error \in TransportErrors : UrlopenRaises(error)
    \/ \E body \in Responses : UrlopenReturns(body)

SpecCommands ==
    InitCommands /\ [][NextCommands]_vars

\* The parsing of a collected batch, lines 35-53: the call has left the while
\* loop of line 30 with any batch of at most MaxBatch replies.
RECURSIVE Batches(_)
Batches(n) ==
    IF n = 0 THEN {<<>>}
    ELSE Batches(n - 1) \cup
         {Append(batch, data) : batch \in {b \in Batches(n - 1) : Len(b) = n - 1},
                                data \in Replies}

InitParsing ==
    /\ pc = "parse"
    /\ calls = 1
    /\ discovery_time = 0
    /\ timeout = 0
    /\ select_timeout = 0
    /\ broadcast_responses \in Batches(MaxBatch)
    /\ discovered_devices = <<>>
    /\ next_device = 1
    /\ raised = ""
    /\ now = 0
    /\ sockets = {[call |-> 1, name |-> "broadcast_socket", port |-> 0],
                  [call |-> 1, name |-> "receiver_socket",
                   port |-> MINI_CIRCUITS_ANSWERING_PORT]}
    /\ receive_queue = <<>>
    /\ datagrams_on_wire = <<[data |-> msg, port |-> MINI_CIRCUITS_LISTENTING_PORT]>>
    /\ replies_sent = Len(broadcast_responses)
    /\ replies_missed = 0
    /\ InitClient(Reply_A)

NextParsing ==
    \/ ParseNext
    \/ Return

SpecParsing ==
    InitParsing /\ [][NextParsing]_vars

(***************************************************************************)
(* Expected values, written out: the descriptors of the two well-formed    *)
(* replies and the URLs of the specification's example.                    *)
(***************************************************************************)
\* the descriptor the reply of serial 11 stands for
Descriptor_A ==
    [model_name      |-> <<"R","C">>,
     serial_number   |-> <<"1","1">>,
     ip_address      |-> <<"1","0",".","0",".","0",".","5">>,
     port            |-> <<"4","9","5","1">>,
     subnet_mask     |-> <<"2","5","5",".","0",".","0",".","0">>,
     network_gateway |-> <<"1","0",".","0",".","0",".","1">>,
     mac_address     |-> <<"D","0","-","7","3">>,
     url             |-> <<"h","t","t","p",":","/","/","1","0",".","0",".","0",".","5",":","4","9","5","1","/">>,
     password        |-> None]

\* the descriptor the reply of serial 12 stands for
Descriptor_B ==
    [model_name      |-> <<"R","C">>,
     serial_number   |-> <<"1","2">>,
     ip_address      |-> <<"1","9","2",".","1","6","8",".","1",".","5","0">>,
     port            |-> <<"8","0">>,
     subnet_mask     |-> <<"2","5","5",".","0",".","0",".","0">>,
     network_gateway |-> <<"1","0",".","0",".","0",".","1">>,
     mac_address     |-> <<"D","0","-","7","4">>,
     url             |-> <<"h","t","t","p",":","/","/","1","9","2",".","1","6","8",".","1",".","5","0",":","8","0","/">>,
     password        |-> None]

Url_Example_Password ==
    <<"h","t","t","p",":","/","/","1","9","2",".","1","6","8",".","1",".","5","0",":","8","0","/","A","B","C",";",":","A","T","T","?">>

Url_Example_NoPassword ==
    <<"h","t","t","p",":","/","/","1","9","2",".","1","6","8",".","1",".","5","0",":","8","0","/",":","A","T","T","?">>

(***************************************************************************)
(* What the specification's words stand for in the program.                *)
(***************************************************************************)
\* a wrapper call has ended and urlopen had returned a body
Answered ==
    cmd_pc = "done" /\ urlopen_result.raised = ""

\* CommandRejected: the AttenuatorException a wrapper raises with its message
\* of failure
CommandRejected(w, o) ==
    o = [kind |-> "raise", exception |-> "AttenuatorException",
         message |-> w.failed, value |-> None]

\* ValueClamped: the AttenuatorException an attenuation setter raises with its
\* message of a clamped value
ValueClamped(w, o) ==
    o = [kind |-> "raise", exception |-> "AttenuatorException",
         message |-> w.clamped, value |-> None]

ReturnsNormally(o) ==
    o.kind = "return"

AttenuationSetters ==
    {"set_attenuation", "set_startup_attenuation_value"}

DiscreteSetters ==
    {"set_startup_attenuation_mode", "hop_mode_set_points", "hop_mode_set_direction",
     "hop_mode_set_indexed_point", "hop_mode_set_point_dwell_time_units",
     "hop_mode_set_point_dwell_time", "hop_mode_set_point_attenuation",
     "set_hop_mode", "sweep_mode_set_sweep_direction",
     "sweep_mode_set_dwell_time_units", "sweep_mode_set_dwell_time",
     "sweep_mode_set_start_attenuation", "sweep_mode_set_stop_attenuation",
     "sweep_mode_set_step_size", "set_sweep_mode"}

C7_CommandUrl ==
    cmd_pc = "urlopen" =>
        LET base == <<"h","t","t","p",":","/","/">> \o attenuator.ip_address \o <<":">>
                    \o attenuator.port \o <<"/">>
            p    == attenuator.password
            configured == p # None /\ p # <<>>
        IN  /\ requests # <<>>
            /\ configured => requests[1] = base \o p \o <<";">> \o command
            /\ ~configured => requests[1] = base \o command
            /\ (/\ attenuator.ip_address = Descriptor_B.ip_address
                /\ command = <<":","A","T","T","?">>)
               => /\ p = <<"A","B","C">> => requests[1] = Url_Example_Password
                  /\ p = None => requests[1] = Url_Example_NoPassword

\* get_attenuation with password "ABC" asked for http://192.168.1.50:80/ABC;:ATT?
C7_Witness ==
    /\ cmd_pc = "urlopen"
    /\ wrapper.name = "get_attenuation"
    /\ attenuator.password = <<"A","B","C">>
    /\ requests = <<Url_Example_Password>>

(***************************************************************************)
(* C9.  One wrapper call issues exactly one HTTP request; when the         *)
(* transport fails the failure reaches the caller unchanged, is not turned *)
(* into CommandRejected, ValueClamped or a normal return, and no second    *)
(* request is sent.                                                        *)
(***************************************************************************)
C9_OneRequestAndTransportErrorsPropagate ==
    /\ cmd_pc \in {"urlopen", "done"} => Len(requests) = 1
    /\ (cmd_pc = "done" /\ urlopen_result.raised # "") =>
           /\ outcome.kind = "raise"
           /\ outcome.exception = urlopen_result.raised
           /\ outcome.exception \in TransportErrors
           /\ ~CommandRejected(wrapper, outcome)
           /\ ~ValueClamped(wrapper, outcome)

\* hop_mode_set_points met a refused connection: one request, URLError raised
C9_Witness ==
    /\ cmd_pc = "done"
    /\ wrapper.name = "hop_mode_set_points"
    /\ urlopen_result.raised = "URLError"
    /\ outcome.exception = "URLError"
    /\ Len(requests) = 1

(***************************************************************************)
(* C3.  discover_devices never blocks past its deadline: every wait on the *)
(* receive socket is started with a non-negative remaining budget of at    *)
(* most deadline - now, and the call leaves the collection loop and        *)
(* returns without raising.                                                *)
(***************************************************************************)
C3_WaitsWithinDeadline ==
    /\ select_timeout >= 0
    /\ raised # "ValueError"

(***************************************************************************)
(* C4.  The receive socket is bound to port 4951 no later than the query   *)
(* is broadcast to port 4950, so that no reply to the query arrives while  *)
(* the answering port is unbound.                                          *)
(***************************************************************************)
C4_BoundBeforeQuery ==
    /\ (Running /\ datagrams_on_wire # <<>>) => ReceiverBound
    /\ replies_missed = 0

(***************************************************************************)
(* C5.  A collected batch of N valid replies and one malformed reply       *)
(* (malformed line, odd token count or missing required field), at any     *)
(* position, yields exactly the N descriptors of the valid replies, in     *)
(* order; the error of the malformed reply is not raised to the caller.    *)
(***************************************************************************)
ValidReplies ==
    {Reply_A, Reply_B}

MalformedReplies ==
    {Reply_OddTokens, Reply_MissingField, Reply_BadIpLine}

DescriptorOf(data) ==
    IF data = Reply_A THEN Descriptor_A ELSE Descriptor_B

RECURSIVE DescriptorsOfValid(_)
DescriptorsOfValid(batch) ==
    IF batch = <<>> THEN <<>>
    ELSE IF Head(batch) \in ValidReplies
         THEN <<DescriptorOf(Head(batch))>> \o DescriptorsOfValid(Tail(batch))
         ELSE DescriptorsOfValid(Tail(batch))

OneMalformedAmongValid(batch) ==
    /\ \A i \in 1..Len(batch) : batch[i] \in ValidReplies \cup MalformedReplies
    /\ Cardinality({i \in 1..Len(batch) : batch[i] \in MalformedReplies}) = 1

RECURSIVE StrToInt(_)
StrToInt(s) ==
    IF s = <<>> THEN 0
    ELSE 10 * StrToInt(SubSeq(s, 1, Len(s) - 1)) +
         (CHOOSE d \in 0..9 : <<"0","1","2","3","4","5","6","7","8","9">>[d + 1] = s[Len(s)])

IsDecimal(s) ==
    s # <<>> /\ \A i \in 1..Len(s) : s[i] \in Digits

IsIPv4(s) ==
    LET dots  == {i \in 1..Len(s) : s[i] = "."}
        start(i) == IF \E d \in dots : d < i
                    THEN 1 + (CHOOSE d \in dots : d < i /\ \A e \in dots : e < i => e <= d)
                    ELSE 1
        parts == {Slice(s, start(e), e) : e \in dots \cup {Len(s) + 1}}
    IN  /\ Cardinality(dots) = 3
        /\ \A part \in parts : IsDecimal(part) /\ Len(part) <= 3 /\ StrToInt(part) <= 255

C6_DescriptorsWellFormed ==
    pc \in {"parse", "returned"} =>
        \A i \in 1..Len(discovered_devices) :
            /\ IsIPv4(discovered_devices[i].ip_address)
            /\ IsDecimal(discovered_devices[i].port)

(***************************************************************************)
(* C8.  discover_devices returns one descriptor per successfully parsed    *)
(* datagram received, in receipt order, without deduplication; when no     *)
(* datagram is received it returns the empty sequence and raises no error. *)
(***************************************************************************)
RECURSIVE DescriptorsInReceiptOrder(_)
DescriptorsInReceiptOrder(batch) ==
    IF batch = <<>> THEN <<>>
    ELSE IF ParseDevice(Head(batch)).raises = ""
         THEN <<ParseDevice(Head(batch)).attenuator>> \o
              DescriptorsInReceiptOrder(Tail(batch))
         ELSE DescriptorsInReceiptOrder(Tail(batch))

C8_OneDescriptorPerDatagram ==
    /\ pc = "returned" =>
           discovered_devices = DescriptorsInReceiptOrder(broadcast_responses)
    /\ (pc = "raised" /\ raised # "OSError") => broadcast_responses # <<>>
    /\ (pc \in {"returned", "raised"} /\ raised # "OSError"
        /\ broadcast_responses = <<>> /\ receive_queue = <<>>) =>
           pc = "returned" /\ discovered_devices = <<>>

(***************************************************************************)
(* C10.  No socket outlives the discover_devices call that opened it: when *)
(* a call has ended, by returning or by a bind error, both its sockets are *)
(* closed, and no later call's bind is refused because of an earlier call. *)
(***************************************************************************)
C10_NoSocketOutlivesItsCall ==
    /\ \A s \in sockets : Running /\ s.call = calls
    /\ (pc = "raised" /\ raised = "OSError") =>
           ~\E s \in sockets : s.call < calls /\ s.port = MINI_CIRCUITS_ANSWERING_PORT
=============================================================================
